---- MODULE Spec2Model ----
(***************************************************************************)
(* Model of ccxtbt/ccxtbroker.py: CCXTBroker, the broker that keeps a      *)
(* local table of open orders, a position per instrument and a cash/value  *)
(* snapshot, and reconciles them with an exchange.                         *)
(*                                                                         *)
(* Two threads run the broker: the caller (strategy loop: buy, sell,       *)
(* cancel, next, get_notification, getcash, getvalue, stop) and the        *)
(* listener (the stream that calls push_trade_message).  Every handler    *)
(* is split at its blocking points: the acquisition of _lock_orders and    *)
(* each exchange call, which either returns or raises.  The exchange is    *)
(* the environment: what it answers is a nondeterministic choice.          *)
(***************************************************************************)
EXTENDS Integers, Sequences, FiniteSets, TLC

\* ---------------------------------------------------------------- bounds
\* handler calls in one run: buy, sell, cancel, next, stop and
\* push_trade_message together (get_notification, getcash and getvalue are
\* not counted: they start no new order, report or tick)
MaxOps == 3

\* ------------------------------------------------------- program constants
TRADE == "TRADE"
FILLED == "FILLED"
PARTIALLY_FILLED == "PARTIALLY_FILLED"
\* the class constant NEW (NEW is a reserved word of TLA+)
NEW_ == "NEW"
CANCELED == "CANCELED"
BUY == "BUY"
SELL == "SELL"

\* mappings['closed_order'] and mappings['canceled_order']: the value of the
\* 'status' key that means closed, resp. canceled
closed_order == "closed"
canceled_order == "canceled"

\* ------------------------------------------------------------ input domains
Threads == {"caller", "listener"}
Instruments == {"BTC/USDT"}
\* the ids the exchange hands out, in this order
OrderIds == 1..MaxOps
\* order id 0 is an order this broker never created (a foreign order)
MsgIds == 0..MaxOps
\* the quantity of one fill, and the amount of an order
Qtys == {1, 2}
Amounts == {2}
Prices == {100}
\* the commission a fill report carries under 'n', when it carries one
Commissions == {1}
ExecTypes == {TRADE, NEW_}
Statuses == {FILLED, PARTIALLY_FILLED, NEW_, CANCELED}
\* what fetch_order can report under the key 'status'
ExchangeStates == {"open", closed_order, canceled_order}
\* (free, total) of the account currency, as fetch_balance reports them
Balances == {<<1000, 1000>>, <<900, 1000>>}
\* what the get_balance() of __init__ fetched
StartingBalance == <<1000, 1000>>

VARIABLES
    open_orders,   \* self.open_orders: the ids that are keys of the dict
    orders,        \* the CCXTOrder objects, by exchange order id
    positions,     \* self.positions: instrument -> Position
    store,         \* self.store._cash, self.store._value
    cash,          \* self.cash
    value,         \* self.value
    notifs,        \* self.notifs, head first
    lock_orders,   \* self._lock_orders: "free" or the thread holding it
    pc,            \* where each thread is in its handler
    call,          \* the caller's current operation and its locals
    msg,           \* the execution report the listener is handling
    fill,          \* the listener's locals: the split of the fill it applies
    got,           \* what the last get_notification returned
    outcome,       \* per thread: how the current handler ended
    pre,           \* per thread: the locked state when the handler took the lock
    eff,           \* per thread: exchange calls made and notifications put
    created,       \* ids the exchange handed out in create_order
    applied,       \* the FILLED execution reports that passed the three
                   \* filters
    net,           \* per instrument: the sum of the signed quantities of the
                   \* reports that passed the three filters
    tickets,       \* for each item of notifs, its rank among all items ever put
    nput,          \* items ever put on notifs
    npulled,       \* items get_notification took off notifs
    nops           \* handler calls so far

vars == <<open_orders, orders, positions, store, cash, value, notifs,
          lock_orders, pc, call, msg, fill, got, outcome, pre, eff, created,
          applied, net, tickets, nput, npulled, nops>>

\* ------------------------------------------------------------------ values
\* Python's None: the sentinel next() puts, and what an empty queue yields
None == [ref |-> 0, status |-> "None"]

\* psize, opened, closed as Position.update returned them, and the values
\* and commissions lines 449-465 derive from them
NoFill == [psize |-> 0, opened |-> 0, closed |-> 0, closedvalue |-> 0,
           closedcomm |-> 0, openedvalue |-> 0, openedcomm |-> 0]

\* executed is executed.size, the sum of the sizes order.execute was given;
\* exbit is the last execution record order.execute was given
NoOrder == [data |-> "", ordtype |-> "", size |-> 0, status |-> "None",
            executed |-> 0, exbit |-> NoFill]

\* fetched and response are the two values of the local ccxt_order: what
\* fetch_order answered and what cancel_order answered
NoCall == [op |-> "", data |-> "", side |-> "", amount |-> 0, id |-> 0,
           fetched |-> "", response |-> ""]

\* hasn says whether the report has the key 'n'
NoMsg == [i |-> 0, x |-> "", X |-> "", S |-> "", l |-> 0, L |-> 0,
          hasn |-> FALSE, n |-> 0]

NoEff == [calls |-> <<>>, notified |-> 0, refreshed |-> 0]

NoPre == [open_orders |-> {}, status |-> <<>>, executed |-> <<>>,
          positions |-> <<>>]

\* a price is a rational number num/den, den > 0, in lowest terms
RECURSIVE gcd(_, _)
gcd(a, b) == IF b = 0 THEN a ELSE gcd(b, a % b)

abs(a) == IF a < 0 THEN -a ELSE a

Rat(n, d) ==
    LET s == IF d < 0 THEN -1 ELSE 1
        g == gcd(abs(n), abs(d))
    IN  IF n = 0 THEN [num |-> 0, den |-> 1]
        ELSE [num |-> (s * n) \div g, den |-> (s * d) \div g]

\* backtrader's Position(): size 0 at price 0.0
Position == [size |-> 0, price |-> Rat(0, 1)]

\* Position.update(size, price) of backtrader, as called at line 441:
\* the new size and average price, and the split of the fill into the part
\* that opened exposure and the part that closed it
PositionUpdate(pos, size, price) ==
    LET oldsize == pos.size
        newsize == pos.size + size
        avg == Rat(pos.price.num * oldsize + size * price * pos.price.den,
                   pos.price.den * newsize)
    IN  IF newsize = 0
        THEN [size |-> newsize, price |-> Rat(0, 1), opened |-> 0, closed |-> size]
        ELSE IF oldsize = 0
        THEN [size |-> newsize, price |-> Rat(price, 1), opened |-> size, closed |-> 0]
        ELSE IF oldsize > 0
        THEN IF size > 0
             THEN [size |-> newsize, price |-> avg, opened |-> size, closed |-> 0]
             ELSE IF newsize > 0
             THEN [size |-> newsize, price |-> pos.price, opened |-> 0, closed |-> size]
             ELSE [size |-> newsize, price |-> Rat(price, 1),
                   opened |-> newsize, closed |-> -oldsize]
        ELSE IF size < 0
             THEN [size |-> newsize, price |-> avg, opened |-> size, closed |-> 0]
             ELSE IF newsize < 0
             THEN [size |-> newsize, price |-> pos.price, opened |-> 0, closed |-> size]
             ELSE [size |-> newsize, price |-> Rat(price, 1),
                   opened |-> newsize, closed |-> -oldsize]

\* CCXTOrder(owner, data, ccxt_order): ordtype from the side, size from the
\* amount; OrderBase.__init__ leaves the status at Created
CCXTOrder(data, side, amount) ==
    [data |-> data, ordtype |-> IF side = "buy" THEN "Buy" ELSE "Sell",
     size |-> amount, status |-> "Created", executed |-> 0, exbit |-> NoFill]

\* order.clone(): the snapshot of the order a notification carries
clone(order, id) == [ref |-> id, status |-> order.status]

\* a queue that puts at the head
put_front(q, item) == <<item>> \o q

\* queue.Queue.put: at the tail
put(q, item) == Append(q, item)

\* the size of a fill without its sign
unsigned_size(m) == m.l

\* the signed size of a fill: lines 436-437
signed_size(m) == IF m.S = BUY THEN m.l ELSE -m.l

\* float(pushed_order['n']) if 'n' in pushed_order else 0
commission(m) == IF m.hasn THEN m.n ELSE 0

\* float(pushed_order['L']) * part if part else 0: lines 449-450, 458-459
part_value(m, part) == IF part # 0 THEN m.L * part ELSE 0

\* the commission is attributed whether or not the part is empty
part_comm_always(m, part) == commission(m)

\* the commission attributed to the closed or the opened part: the whole
\* commission of the report if the part is not empty, lines 449-465
part_comm(m, part) == IF part # 0 THEN commission(m) ELSE 0

\* lines 441-465: the locals after Position.update returned up
split(m, up) ==
    [psize |-> up.size, opened |-> up.opened, closed |-> up.closed,
     closedvalue |-> part_value(m, up.closed),
     closedcomm |-> part_comm(m, up.closed),
     openedvalue |-> part_value(m, up.opened),
     openedcomm |-> part_comm(m, up.opened)]

\* ----------------------------------------------------------- bookkeeping
\* the state _lock_orders protects
Locked == [open_orders |-> open_orders,
           status |-> [o \in OrderIds |-> orders[o].status],
           executed |-> [o \in OrderIds |-> orders[o].executed],
           positions |-> positions]

Goto(t, where) == pc' = [pc EXCEPT ![t] = where]

Ends(t, how) == /\ Goto(t, "exit")
                /\ outcome' = [outcome EXCEPT ![t] = how]

\* thread t made the exchange call `name`
Called(t, name) == eff' = [eff EXCEPT ![t].calls = Append(@, name)]

\* thread t made the exchange call `name` and then put a notification
CalledNotified(t, name) ==
    eff' = [eff EXCEPT ![t].calls = Append(@, name), ![t].notified = @ + 1]

\* self.notify(order): a clone of the order is put on self.notifs
notify(order, id) ==
    /\ notifs' = put(notifs, clone(order, id))
    /\ tickets' = put(tickets, nput + 1)
    /\ nput' = nput + 1

\* ---------------------------------------------------------------- Init
\* the state __init__ leaves: no order, no position, an empty queue, the
\* balance fetched once, the lock free
Init ==
    /\ open_orders = {}
    /\ orders = [o \in OrderIds |-> NoOrder]
    /\ positions = [d \in Instruments |-> Position]
    /\ store = [cash |-> StartingBalance[1], value |-> StartingBalance[2]]
    /\ cash = StartingBalance[1]
    /\ value = StartingBalance[2]
    /\ notifs = <<>>
    /\ lock_orders = "free"
    /\ pc = [t \in Threads |-> "idle"]
    /\ call = NoCall
    /\ msg = NoMsg
    /\ fill = NoFill
    /\ got = None
    /\ outcome = [t \in Threads |-> ""]
    /\ pre = [t \in Threads |-> NoPre]
    /\ eff = [t \in Threads |-> NoEff]
    /\ created = {}
    /\ applied = {}
    /\ net = [d \in Instruments |-> 0]
    /\ tickets = <<>>
    /\ nput = 0
    /\ npulled = 0
    /\ nops = 0

\* ------------------------------------------------------- the lock
\* a lock that does not exclude
acquire_unguarded(t) == /\ lock_orders' = t
                        /\ pre' = [pre EXCEPT ![t] = Locked]

\* `with self._lock_orders:` entered by thread t: blocks until the lock is free
acquire(t) == /\ lock_orders = "free"
              /\ lock_orders' = t
              /\ pre' = [pre EXCEPT ![t] = Locked]

\* a lock that is kept when the block is left by an exception
release_on_return(t) ==
    /\ pc[t] = "exit"
    /\ lock_orders' = IF outcome[t] \in {"raised", "KeyError"} THEN lock_orders
                                                              ELSE "free"
    /\ Goto(t, "idle")
    /\ outcome' = [outcome EXCEPT ![t] = ""]
    /\ pre' = [pre EXCEPT ![t] = NoPre]
    /\ eff' = [eff EXCEPT ![t] = NoEff]
    /\ call' = IF t = "caller" THEN NoCall ELSE call
    /\ msg' = IF t = "listener" THEN NoMsg ELSE msg
    /\ fill' = IF t = "listener" THEN NoFill ELSE fill
    /\ UNCHANGED <<open_orders, orders, positions, store, cash, value, notifs,
                   got, created, applied, tickets, nput, npulled, nops, net>>

\* the end of the with block, on return and on an exception alike
release(t) ==
    /\ pc[t] = "exit"
    /\ lock_orders' = "free"
    /\ Goto(t, "idle")
    /\ outcome' = [outcome EXCEPT ![t] = ""]
    /\ pre' = [pre EXCEPT ![t] = NoPre]
    /\ eff' = [eff EXCEPT ![t] = NoEff]
    /\ call' = IF t = "caller" THEN NoCall ELSE call
    /\ msg' = IF t = "listener" THEN NoMsg ELSE msg
    /\ fill' = IF t = "listener" THEN NoFill ELSE fill
    /\ UNCHANGED <<open_orders, orders, positions, store, cash, value, notifs,
                   got, created, applied, tickets, nput, npulled, nops, net>>

\* ------------------------------------------------------------ buy / sell
\* buy(...) and sell(...): call _submit with the side
submit(data, side, amount) ==
    /\ pc["caller"] = "idle"
    /\ nops < MaxOps
    /\ nops' = nops + 1
    /\ call' = [NoCall EXCEPT !.op = "submit", !.data = data, !.side = side,
                              !.amount = amount]
    /\ Goto("caller", "s_lock")
    /\ UNCHANGED <<open_orders, orders, positions, store, cash, value, notifs,
                   lock_orders, msg, got, outcome, pre, eff, created, applied,
                   tickets, nput, npulled, fill, net>>

buy == \E d \in Instruments, a \in Amounts : submit(d, "buy", a)

sell == \E d \in Instruments, a \in Amounts : submit(d, "sell", a)

submit_lock ==
    /\ pc["caller"] = "s_lock"
    /\ acquire("caller")
    /\ Goto("caller", "s_create")
    /\ UNCHANGED <<open_orders, orders, positions, store, cash, value, notifs,
                   call, msg, got, outcome, eff, created, applied, tickets,
                   nput, npulled, nops, fill, net>>

\* self.store.create_order(...): the exchange creates the order and hands
\* out its id, or the call raises
submit_create ==
    /\ pc["caller"] = "s_create"
    /\ Called("caller", "create_order")
    /\ \/ /\ call' = [call EXCEPT !.id = Cardinality(created) + 1]
          /\ created' = created \cup {Cardinality(created) + 1}
          /\ Goto("caller", "s_fetch")
          /\ UNCHANGED outcome
       \/ /\ Ends("caller", "raised")
          /\ UNCHANGED <<call, created>>
    /\ UNCHANGED <<open_orders, orders, positions, store, cash, value, notifs,
                   lock_orders, msg, got, pre, applied, tickets, nput, npulled,
                   nops, fill, net>>

\* the order is not inserted
register_skip(table, id) == table

\* self.open_orders[order.ccxt_order['id']] = order
register(table, id) == table \cup {id}

\* self.store.fetch_order(ret_ord['id'], ...), then the order is built,
\* registered and notified; or the fetch raises
submit_fetch ==
    /\ pc["caller"] = "s_fetch"
    /\ \/ LET order == CCXTOrder(call.data, call.side, call.amount)
          IN  /\ orders' = [orders EXCEPT ![call.id] = order]
              /\ open_orders' = register(open_orders, call.id)
              /\ notify(order, call.id)
              /\ CalledNotified("caller", "fetch_order")
              /\ Ends("caller", "returned")
       \/ /\ Called("caller", "fetch_order")
          /\ Ends("caller", "raised")
          /\ UNCHANGED <<orders, open_orders, notifs, tickets, nput>>
    /\ UNCHANGED <<positions, store, cash, value, lock_orders, call, msg, got,
                   pre, created, applied, npulled, nops, fill, net>>

\* ---------------------------------------------------------------- cancel
\* cancel(order), for an order object a submit returned earlier
cancel(id) ==
    /\ pc["caller"] = "idle"
    /\ orders[id].status # "None"
    /\ nops < MaxOps
    /\ nops' = nops + 1
    /\ call' = [NoCall EXCEPT !.op = "cancel", !.data = orders[id].data,
                              !.id = id]
    /\ Goto("caller", "c_lock")
    /\ UNCHANGED <<open_orders, orders, positions, store, cash, value, notifs,
                   lock_orders, msg, got, outcome, pre, eff, created, applied,
                   tickets, nput, npulled, fill, net>>

cancel_any == \E id \in OrderIds : cancel(id)

cancel_lock ==
    /\ pc["caller"] = "c_lock"
    /\ acquire("caller")
    /\ Goto("caller", "c_fetch")
    /\ UNCHANGED <<open_orders, orders, positions, store, cash, value, notifs,
                   call, msg, got, outcome, eff, created, applied, tickets,
                   nput, npulled, nops, fill, net>>

\* the closed predicate never holds
is_closed_never(st) == FALSE

\* ccxt_order[mappings['closed_order']['key']] == mappings['closed_order']['value']
is_closed(st) == st = closed_order

\* ccxt_order[mappings['canceled_order']['key']] == mappings['canceled_order']['value']
is_canceled(st) == st = canceled_order

\* self.store.fetch_order(oID, ...) and the closed predicate on its answer
cancel_fetch ==
    /\ pc["caller"] = "c_fetch"
    /\ Called("caller", "fetch_order")
    /\ \/ \E st \in ExchangeStates :
             /\ call' = [call EXCEPT !.fetched = st]
             /\ IF is_closed(st)
                THEN Ends("caller", "returned")
                ELSE Goto("caller", "c_cancel") /\ UNCHANGED outcome
       \/ /\ Ends("caller", "raised")
          /\ UNCHANGED call
    /\ UNCHANGED <<open_orders, orders, positions, store, cash, value, notifs,
                   lock_orders, msg, got, pre, created, applied, tickets, nput,
                   npulled, nops, fill, net>>

\* self.store.cancel_order(oID, ...) and the canceled predicate on its
\* answer; self.open_orders.pop(oID) raises KeyError when oID is no key
cancel_order ==
    /\ pc["caller"] = "c_cancel"
    /\ \/ \E st \in ExchangeStates :
             /\ call' = [call EXCEPT !.response = st]
             /\ IF is_canceled(st) /\ call.id \in open_orders
                THEN LET order == [orders[call.id] EXCEPT !.status = "Canceled"]
                     IN  /\ open_orders' = open_orders \ {call.id}
                         /\ orders' = [orders EXCEPT ![call.id] = order]
                         /\ notify(order, call.id)
                         /\ CalledNotified("caller", "cancel_order")
                         /\ Ends("caller", "returned")
                ELSE /\ Called("caller", "cancel_order")
                     /\ Ends("caller", IF is_canceled(st) THEN "KeyError"
                                                         ELSE "returned")
                     /\ UNCHANGED <<open_orders, orders, notifs, tickets, nput>>
       \/ /\ Called("caller", "cancel_order")
          /\ Ends("caller", "raised")
          /\ UNCHANGED <<open_orders, orders, notifs, tickets, nput, call>>
    /\ UNCHANGED <<positions, store, cash, value, lock_orders, msg, got, pre,
                   created, applied, npulled, nops, fill, net>>

\* ------------------------------------------------ next, get_notification
\* a tick that deposits nothing
next_silent ==
    /\ pc["caller"] = "idle"
    /\ nops < MaxOps
    /\ nops' = nops + 1
    /\ UNCHANGED <<open_orders, orders, positions, store, cash, value, notifs,
                   lock_orders, pc, call, msg, fill, got, outcome, pre, eff,
                   created, applied, tickets, nput, npulled, net>>

\* next(): self.notifs.put(None)
next ==
    /\ pc["caller"] = "idle"
    /\ nops < MaxOps
    /\ nops' = nops + 1
    /\ notifs' = put(notifs, None)
    /\ tickets' = put(tickets, nput + 1)
    /\ nput' = nput + 1
    /\ UNCHANGED <<open_orders, orders, positions, store, cash, value,
                   lock_orders, pc, call, msg, got, outcome, pre, eff, created,
                   applied, npulled, fill, net>>

\* get_notification(): self.notifs.get(False), None when queue.Empty is raised
get_notification ==
    /\ pc["caller"] = "idle"
    /\ IF notifs = <<>>
       THEN /\ got' = None
            /\ UNCHANGED <<notifs, tickets, npulled>>
       ELSE /\ got' = Head(notifs)
            /\ notifs' = Tail(notifs)
            /\ tickets' = Tail(tickets)
            /\ npulled' = npulled + 1
    /\ UNCHANGED <<open_orders, orders, positions, store, cash, value,
                   lock_orders, pc, call, msg, outcome, pre, eff, created,
                   applied, nput, nops, fill, net>>

\* ---------------------------------------------------- push_trade_message
\* the execution reports the stream can deliver.  A report of a fill has
\* execution type TRADE and status FILLED or PARTIALLY_FILLED; the others
\* are acknowledgements.  A report is about an order the exchange created
\* for this broker, and then carries that order's side, or about a foreign
\* order (id 0).
Fills == [i : MsgIds, x : {TRADE}, X : {FILLED, PARTIALLY_FILLED},
          S : {BUY, SELL}, l : Qtys, L : Prices, hasn : {TRUE}, n : Commissions]
         \cup
         [i : MsgIds, x : {TRADE}, X : {FILLED, PARTIALLY_FILLED},
          S : {BUY, SELL}, l : Qtys, L : Prices, hasn : {FALSE}, n : {0}]

Acks == [i : MsgIds, x : ExecTypes, X : Statuses \ {PARTIALLY_FILLED},
         S : {BUY, SELL}, l : {1}, L : Prices, hasn : {FALSE}, n : {0}] \ Fills

Reports ==
    {m \in Fills \cup Acks :
        /\ m.i \in created \cup {0}
        /\ IF m.i \in OrderIds /\ orders[m.i].status # "None"
           THEN m.S = BUY <=> orders[m.i].ordtype = "Buy"
           ELSE m.S = BUY /\ m.l = 1}

\* the stream calls push_trade_message(msg); the handler reads msg only
\* once it holds the lock, so what the report says is drawn there
push_trade_message ==
    /\ pc["listener"] = "idle"
    /\ nops < MaxOps
    /\ nops' = nops + 1
    /\ Goto("listener", "p_lock")
    /\ UNCHANGED <<open_orders, orders, positions, store, cash, value, notifs,
                   lock_orders, call, msg, got, outcome, pre, eff, created,
                   applied, tickets, nput, npulled, fill, net>>

push_lock ==
    /\ pc["listener"] = "p_lock"
    /\ acquire("listener")
    /\ \E m \in Reports : msg' = m
    /\ Goto("listener", "p_check")
    /\ UNCHANGED <<open_orders, orders, positions, store, cash, value, notifs,
                   call, got, outcome, eff, created, applied, tickets, nput,
                   npulled, nops, fill, net>>

\* the guard asks whether the order was ever registered
known_ever(id) == id \in OrderIds /\ orders[id].status # "None"

\* the guard of line 413: is the order id a key of open_orders
known(id) == id \in open_orders

\* order.partial() / order.completed(): lines 467-470
transition(status) ==
    IF status = PARTIALLY_FILLED THEN "Partial" ELSE "Completed"

\* every execution type passes for a trade
is_trade_any(x) == TRUE

\* the test of line 423 passes: exec_type == self.TRADE
is_trade(x) == x = TRADE

\* the test of line 428 passes: the status is FILLED or PARTIALLY_FILLED
is_fill(X) == X = FILLED \/ X = PARTIALLY_FILLED

\* lines 405-470: the three filters, then the position is updated, the fill
\* split into its closed and opened part, and the order's status set
push_check ==
    /\ pc["listener"] = "p_check"
    /\ IF ~known(msg.i)
       THEN /\ Ends("listener", "unknown")
            /\ UNCHANGED <<positions, orders, applied, net, fill>>
       ELSE IF ~is_trade(msg.x)
       THEN /\ Ends("listener", "nontrade")
            /\ UNCHANGED <<positions, orders, applied, net, fill>>
       ELSE IF ~is_fill(msg.X)
       THEN /\ Ends("listener", "nonfill")
            /\ UNCHANGED <<positions, orders, applied, net, fill>>
       ELSE LET data == orders[msg.i].data
                up == PositionUpdate(positions[data], signed_size(msg), msg.L)
            IN  /\ positions' = [positions EXCEPT ![data] =
                                    [size |-> up.size, price |-> up.price]]
                /\ fill' = split(msg, up)
                /\ orders' = [orders EXCEPT ![msg.i].status = transition(msg.X)]
                /\ applied' = IF msg.X = FILLED THEN applied \cup {msg}
                                                ELSE applied
                /\ net' = [net EXCEPT ![data] =
                              @ + (IF msg.S = BUY THEN msg.l ELSE -msg.l)]
                /\ Goto("listener", "p_trades")
                /\ UNCHANGED outcome
    /\ UNCHANGED <<open_orders, store, cash, value, notifs, lock_orders, call,
                   msg, got, pre, eff, created, tickets, nput, npulled, nops>>

\* lines 472-514: get_order_trades (fetch_my_trades), then order.execute
\* with execsize = closed + opened, and the notification
push_trades ==
    /\ pc["listener"] = "p_trades"
    /\ \/ LET order == [orders[msg.i] EXCEPT
                          !.executed = @ + fill.closed + fill.opened,
                          !.exbit = fill]
          IN  /\ orders' = [orders EXCEPT ![msg.i] = order]
              /\ notify(order, msg.i)
              /\ CalledNotified("listener", "fetch_my_trades")
              /\ Goto("listener", "p_balance")
              /\ UNCHANGED outcome
       \/ /\ Called("listener", "fetch_my_trades")
          /\ Ends("listener", "raised")
          /\ UNCHANGED <<orders, notifs, tickets, nput>>
    /\ UNCHANGED <<open_orders, positions, store, cash, value, lock_orders, call,
                   msg, got, pre, created, applied, npulled, nops, fill, net>>

\* get_balance(): self.store.get_balance(), then cash and value are copied
get_balance(t) ==
    \/ \E b \in Balances :
          /\ store' = [cash |-> b[1], value |-> b[2]]
          /\ cash' = b[1]
          /\ value' = b[2]
          /\ eff' = [eff EXCEPT ![t].calls = Append(@, "fetch_balance"),
                                ![t].refreshed = @ + 1]
          /\ Ends(t, "returned")
    \/ /\ Called(t, "fetch_balance")
       /\ Ends(t, "raised")
       /\ UNCHANGED <<store, cash, value>>

\* line 516
push_balance ==
    /\ pc["listener"] = "p_balance"
    /\ get_balance("listener")
    /\ UNCHANGED <<open_orders, orders, positions, notifs, lock_orders, call,
                   msg, got, pre, created, applied, tickets, nput, npulled,
                   nops, fill, net>>

\* --------------------------------------------- stop, getcash, getvalue
\* stop(): get_balance() without taking _lock_orders, then the store is
\* stopped; the caller makes no further call, whether stop returned or the
\* balance query raised
stop ==
    /\ pc["caller"] = "idle"
    /\ nops < MaxOps
    /\ nops' = nops + 1
    /\ Goto("caller", "stopped")
    /\ \/ \E b \in Balances :
             /\ store' = [cash |-> b[1], value |-> b[2]]
             /\ cash' = b[1]
             /\ value' = b[2]
       \/ UNCHANGED <<store, cash, value>>
    /\ UNCHANGED <<open_orders, orders, positions, notifs, lock_orders, call,
                   msg, fill, got, outcome, pre, eff, created, applied, tickets,
                   nput, npulled, net>>

\* getcash(): self.cash = self.store._cash, no exchange query, no lock
getcash ==
    /\ pc["caller"] = "idle"
    /\ cash' = store.cash
    /\ UNCHANGED <<open_orders, orders, positions, store, value, notifs,
                   lock_orders, pc, call, msg, fill, got, outcome, pre, eff,
                   created, applied, tickets, nput, npulled, nops, net>>

\* getvalue(): self.value = self.store._value, no exchange query, no lock
getvalue ==
    /\ pc["caller"] = "idle"
    /\ value' = store.value
    /\ UNCHANGED <<open_orders, orders, positions, store, cash, notifs,
                   lock_orders, pc, call, msg, fill, got, outcome, pre, eff,
                   created, applied, tickets, nput, npulled, nops, net>>

\* ----------------------------------------------------------------- Next
caller_return == release("caller")

listener_return == release("listener")

Next ==
    \/ buy
    \/ sell
    \/ submit_lock
    \/ submit_create
    \/ submit_fetch
    \/ cancel_any
    \/ cancel_lock
    \/ cancel_fetch
    \/ cancel_order
    \/ caller_return
    \/ next
    \/ get_notification
    \/ stop
    \/ getcash
    \/ getvalue
    \/ push_trade_message
    \/ push_lock
    \/ push_check
    \/ push_trades
    \/ push_balance
    \/ listener_return

Spec == Init /\ [][Next]_vars

\* ------------------------------------------------------ fair scheduling
\* the steps of a handler the caller thread has entered: taking the lock,
\* each exchange call (it returns or raises), leaving the with block
CallerSteps ==
    \/ submit_lock
    \/ submit_create
    \/ submit_fetch
    \/ cancel_lock
    \/ cancel_fetch
    \/ cancel_order
    \/ caller_return

\* the steps of push_trade_message once the stream has delivered a report
ListenerSteps ==
    \/ push_lock
    \/ push_check
    \/ push_trades
    \/ push_balance
    \/ listener_return

\* the calls the strategy and the stream make, and the steps of the
\* handlers; the queue is not drained here (get_notification takes no lock
\* and moves no handler)
NextLive ==
    \/ buy
    \/ sell
    \/ cancel_any
    \/ next
    \/ stop
    \/ getcash
    \/ getvalue
    \/ push_trade_message
    \/ CallerSteps
    \/ ListenerSteps

\* each thread is scheduled as long as it can take a step, and every
\* exchange call answers; which calls the strategy and the stream make, and
\* whether they make any, is left open
SpecLive ==
    Init /\ [][NextLive]_vars /\ WF_vars(CallerSteps) /\ WF_vars(ListenerSteps)

\* ------------------------------------------- the listener on two open orders
\* the state after buy(...) and sell(...) returned orders 1 and 2 and the
\* caller pulled their two notifications: a state of Spec.  From here the
\* stream delivers up to MaxOps reports about a buy and a sell order on
\* one instrument, so that fills close, reverse and cross the position.
InitFills ==
    /\ open_orders = {1, 2}
    /\ orders = [o \in OrderIds |->
                    IF o = 1 THEN CCXTOrder("BTC/USDT", "buy", 2)
                    ELSE IF o = 2 THEN CCXTOrder("BTC/USDT", "sell", 2)
                    ELSE NoOrder]
    /\ positions = [d \in Instruments |-> Position]
    /\ store = [cash |-> StartingBalance[1], value |-> StartingBalance[2]]
    /\ cash = StartingBalance[1]
    /\ value = StartingBalance[2]
    /\ notifs = <<>>
    /\ lock_orders = "free"
    /\ pc = [t \in Threads |-> "idle"]
    /\ call = NoCall
    /\ msg = NoMsg
    /\ fill = NoFill
    /\ got = clone(CCXTOrder("BTC/USDT", "sell", 2), 2)
    /\ outcome = [t \in Threads |-> ""]
    /\ pre = [t \in Threads |-> NoPre]
    /\ eff = [t \in Threads |-> NoEff]
    /\ created = {1, 2}
    /\ applied = {}
    /\ net = [d \in Instruments |-> 0]
    /\ tickets = <<>>
    /\ nput = 2
    /\ npulled = 2
    /\ nops = 0

NextFills ==
    \/ push_trade_message
    \/ push_lock
    \/ push_check
    \/ push_trades
    \/ push_balance
    \/ listener_return

SpecFills == InitFills /\ [][NextFills]_vars

\* ======================================================================
\* The claims
\* ======================================================================

\* C1: a FILLED execution report that was applied once is discarded when it
\* is delivered again: the later delivery finds the order id absent from
\* open_orders and changes neither the position nor the order.
C1_FillAppliedOnce ==
    [][(pc["listener"] = "p_check" /\ pc'["listener"] # "p_check"
           /\ msg.X = FILLED /\ msg \in applied)
          => /\ ~known(msg.i)
             /\ outcome'["listener"] = "unknown"
             /\ positions' = positions
             /\ orders' = orders]_vars

\* C2: an execution report whose order id is not a key of open_orders is
\* discarded: open_orders, the orders and the positions are as they were
\* when the handler took the lock, and the handler made no exchange call,
\* put no notification and did not refresh cash/value.
C2_UnknownOrderDiscarded ==
    (pc["listener"] = "exit" /\ msg.i \notin pre["listener"].open_orders)
       => /\ outcome["listener"] = "unknown"
          /\ Locked = pre["listener"]
          /\ eff["listener"] = NoEff

\* a fill report for an order this broker created and canceled was discarded
C2_Witness ==
    /\ pc["listener"] = "exit"
    /\ msg.i \in created
    /\ msg.i \notin pre["listener"].open_orders
    /\ msg.x = TRADE
    /\ msg.X = FILLED
    /\ orders[msg.i].status = "Canceled"

\* C3: while no handler holds the lock, open_orders holds no order whose
\* status is Completed (filled) or Canceled.
C3_NoTerminalOrderOpen ==
    lock_orders = "free"
       => \A o \in open_orders : orders[o].status \notin {"Completed", "Canceled"}

\* C4: Completed (filled) and Canceled are terminal: no step changes the
\* status of an order that has one of them.
C4_TerminalIsFinal ==
    [][\A o \in OrderIds :
          orders[o].status \in {"Completed", "Canceled"}
             => orders'[o].status = orders[o].status]_vars

\* C5: cancel(order) on an order whose fetched state is closed returns
\* without raising after the one fetch_order call: no cancel_order call, no
\* notification, and open_orders, the orders and the positions unchanged.
C5_CancelClosedIsNoop ==
    (pc["caller"] = "exit" /\ call.op = "cancel" /\ call.fetched = closed_order)
       => /\ outcome["caller"] = "returned"
          /\ eff["caller"] = [NoEff EXCEPT !.calls = <<"fetch_order">>]
          /\ Locked = pre["caller"]

\* cancel was called on an order that a FILLED report completed and that is
\* still in open_orders, and the exchange reported it closed
C5_Witness ==
    /\ pc["caller"] = "exit"
    /\ call.op = "cancel"
    /\ call.fetched = closed_order
    /\ call.id \in open_orders
    /\ orders[call.id].status = "Completed"

\* C6: when cancel(order) got an answer to its cancel request, the answer
\* alone decides: if it satisfies the canceled predicate, the order is not
\* in open_orders, is Canceled and exactly one notification was put; if
\* not, nothing changed and no notification was put.
C6_CancelDecidedByResponse ==
    (pc["caller"] = "exit" /\ call.op = "cancel" /\ call.response # "")
       => IF is_canceled(call.response)
          THEN /\ outcome["caller"] = "returned"
               /\ call.id \notin open_orders
               /\ orders[call.id].status = "Canceled"
               /\ eff["caller"].notified = 1
          ELSE /\ outcome["caller"] = "returned"
               /\ Locked = pre["caller"]
               /\ eff["caller"].notified = 0

\* C7: a handler that ended because an exchange call raised has changed
\* nothing: open_orders, the orders and the positions are as they were when
\* it took the lock, and it put no notification.
C7_FailureAtomicity ==
    \A t \in Threads :
        (pc[t] = "exit" /\ outcome[t] = "raised")
           => /\ Locked = pre[t]
              /\ eff[t].notified = 0

\* C8: the queue is first in, first out: the items waiting are, head first,
\* the items put after the npulled ones already taken, in the order they were
\* put; so the next get_notification returns the oldest item not yet
\* returned.  In particular the Created (submitted) notification of an
\* order is ahead of every later notification of that order.
C8_Fifo ==
    /\ Len(tickets) = Len(notifs)
    /\ nput = npulled + Len(notifs)
    /\ \A k \in 1..Len(tickets) : tickets[k] = npulled + k
    /\ \A j, k \in 1..Len(notifs) :
          (j < k /\ notifs[j].ref = notifs[k].ref /\ notifs[j].ref # 0)
             => notifs[k].status # "Created"
    /\ \A k \in 1..Len(notifs) :
          (got.ref # 0 /\ got.ref = notifs[k].ref) => notifs[k].status # "Created"

\* the submitted notification of an order was pulled while the notification
\* of its fill waits in the queue
C8_Witness ==
    /\ npulled >= 1
    /\ got.status = "Created"
    /\ notifs # <<>>
    /\ notifs[1].ref = got.ref
    /\ notifs[1].status \in {"Partial", "Completed"}

\* C9: no execution report is checked against open_orders while _submit is
\* between create_order and the insertion of the order; so a report that
\* is discarded as unknown although the exchange created its order for
\* this broker is about an order that was never registered (fetch_order
\* raised) or that cancel has removed, never about one being registered.
C9_NoCheckBeforeRegistered ==
    /\ ~(pc["listener"] = "p_check" /\ pc["caller"] = "s_fetch")
    /\ (pc["listener"] = "exit" /\ outcome["listener"] = "unknown"
           /\ msg.i \in created)
          => /\ orders[msg.i].status \in {"None", "Canceled"}
             /\ ~(pc["caller"] = "s_fetch" /\ call.id = msg.i)

\* a report arrived while _submit was between create_order and the insertion
C9_Witness ==
    /\ pc["listener"] = "p_lock"
    /\ pc["caller"] = "s_fetch"
    /\ lock_orders = "caller"

\* C10: a submit that returned made exactly the calls create_order then
\* fetch_order, added the new order's id to open_orders, put exactly one
\* notification, of the order as Created, and changed no position.
C10_SubmitEffects ==
    (pc["caller"] = "exit" /\ call.op = "submit" /\ outcome["caller"] = "returned")
       => /\ eff["caller"].calls = <<"create_order", "fetch_order">>
          /\ call.id \notin pre["caller"].open_orders
          /\ open_orders = pre["caller"].open_orders \cup {call.id}
          /\ orders[call.id].status = "Created"
          /\ eff["caller"].notified = 1
          /\ notifs # <<>>
          /\ notifs[Len(notifs)] = [ref |-> call.id, status |-> "Created"]
          /\ positions = pre["caller"].positions

\* a sell was submitted while an earlier order was open
C10_Witness ==
    /\ pc["caller"] = "exit"
    /\ call.op = "submit"
    /\ call.side = "sell"
    /\ outcome["caller"] = "returned"
    /\ pre["caller"].open_orders # {}

\* C11: every execution report that passes the three filters (order id a
\* key of open_orders, execution type TRADE, status PARTIALLY_FILLED or
\* FILLED) puts exactly one notification and leaves the order Partial,
\* resp. Completed, when its handler ends.
C11_FillNotifiedOnce ==
    (pc["listener"] = "exit" /\ msg.i \in pre["listener"].open_orders
        /\ msg.x = TRADE /\ msg.X \in {FILLED, PARTIALLY_FILLED})
       => /\ eff["listener"].notified = 1
          /\ orders[msg.i].status =
                (IF msg.X = FILLED THEN "Completed" ELSE "Partial")

\* C12: store/cash/value change only in stop() and in the balance refresh
\* that ends push_trade_message; a handler of a report that passed the three
\* filters has queried the balance exactly once when it ends, a handler of
\* a discarded report never; and cash and value are the values of the most
\* recent refresh, which getcash() and getvalue() return without a query.
C12_RefreshPoints ==
    [][/\ (store' # store \/ cash' # cash \/ value' # value)
             => \/ pc["caller"] = "idle" /\ pc'["caller"] = "stopped"
                \/ pc["listener"] = "p_balance" /\ pc'["listener"] = "exit"
       /\ (pc["listener"] # "exit" /\ pc'["listener"] = "exit")
             => LET calls == eff'["listener"].calls
                    queries == {k \in 1..Len(calls) : calls[k] = "fetch_balance"}
                IN  IF /\ msg'.i \in pre'["listener"].open_orders
                       /\ msg'.x = TRADE
                       /\ msg'.X \in {FILLED, PARTIALLY_FILLED}
                    THEN Cardinality(queries) = 1
                    ELSE Cardinality(queries) = 0
       /\ cash' = store'.cash
       /\ value' = store'.value]_vars

\* C13: a report about an order in open_orders whose execution type is not
\* TRADE, or whose status is neither PARTIALLY_FILLED nor FILLED, is
\* discarded without an exception: open_orders, the orders' statuses and
\* the positions are as they were when the handler took the lock, and the
\* handler made no exchange call, put no notification and did not refresh
\* cash/value.
C13_NonFillDiscarded ==
    (pc["listener"] = "exit" /\ msg.i \in pre["listener"].open_orders
        /\ (msg.x # TRADE \/ msg.X \notin {FILLED, PARTIALLY_FILLED}))
       => /\ outcome["listener"] \in {"nontrade", "nonfill"}
          /\ Locked = pre["listener"]
          /\ eff["listener"] = NoEff

\* a report with status FILLED but execution type NEW, about an open order
C13_Witness ==
    /\ pc["listener"] = "exit"
    /\ msg.i \in open_orders
    /\ msg.x = NEW_
    /\ msg.X = FILLED

\* C14: the net size of an instrument's position is the sum of the signed
\* quantities of the fills applied to it, however the total was split into
\* fills.
C14_FillConservation ==
    \A d \in Instruments :
        positions[d].size = net[d]

\* the sell order of amount 2 was filled in two fills of 1, the first
\* reported PARTIALLY_FILLED and the second FILLED
C14_Witness ==
    /\ Len(notifs) = 2
    /\ notifs[1] = [ref |-> 2, status |-> "Partial"]
    /\ notifs[2] = [ref |-> 2, status |-> "Completed"]
    /\ orders[2].executed = -2
    /\ positions["BTC/USDT"].size = -2

\* C15: the split of an applied fill, as the handler computes it and as the
\* order records it.  A fill that exactly reverses the position S (signed
\* quantity -S) has opened = 0, closed of magnitude |S|, and zero opened
\* value and opened commission.  A fill from flat, or in the direction of
\* the position, has closed = 0, opened = the whole signed quantity, and
\* zero closed value and closed commission.
C15_OpenCloseSplit ==
    pc["listener"] \in {"p_trades", "p_balance"}
       => LET S == pre["listener"].positions[orders[msg.i].data].size
              f == IF msg.S = BUY THEN msg.l ELSE -msg.l
              r == IF pc["listener"] = "p_trades" THEN fill
                                                  ELSE orders[msg.i].exbit
          IN  /\ (S # 0 /\ f = -S)
                    => /\ r.opened = 0
                       /\ abs(r.closed) = abs(S)
                       /\ r.openedvalue = 0
                       /\ r.openedcomm = 0
              /\ (S = 0 \/ S * f > 0)
                    => /\ r.closed = 0
                       /\ r.opened = f
                       /\ r.closedvalue = 0
                       /\ r.closedcomm = 0

\* the order recorded a fill with a commission that exactly closed a position
C15_Witness ==
    /\ pc["listener"] = "p_balance"
    /\ pre["listener"].positions["BTC/USDT"].size # 0
    /\ positions["BTC/USDT"].size = 0
    /\ msg.hasn
    /\ orders[msg.i].exbit.closed # 0

\* C16, as claimed: an empty queue yields None and is left as it is; each
\* next() appends exactly one None; and what get_notification returns for
\* an item it took off the queue differs from the None of an empty queue.
C16_SentinelDistinct ==
    [][/\ (pc' = pc /\ got' # got /\ npulled' = npulled)
             => notifs = <<>> /\ got' = None /\ notifs' = notifs
       /\ (pc' = pc /\ nops' = nops + 1) => notifs' = Append(notifs, None)
       /\ (npulled' = npulled + 1) => got' # None]_vars

\* C16, amended: an empty queue yields None and is left as it is; each
\* next() appends exactly one None; get_notification returns the head of a
\* non-empty queue, so for the sentinel it returns None, the value an empty
\* queue yields.
C16_SentinelIsNone ==
    [][/\ (pc' = pc /\ got' # got /\ npulled' = npulled)
             => notifs = <<>> /\ got' = None /\ notifs' = notifs
       /\ (pc' = pc /\ nops' = nops + 1) => notifs' = Append(notifs, None)
       /\ (npulled' = npulled + 1)
             => /\ got' = Head(notifs)
                /\ notifs' = Tail(notifs)
                /\ Head(notifs).ref = 0 => got' = None]_vars

\* the only call so far was next(), and its sentinel was pulled: what
\* get_notification returned is None while the queue was not empty
C16_Witness ==
    /\ nops = 1
    /\ nput = 1
    /\ npulled = 1
    /\ got = None
    /\ pc = [t \in Threads |-> "idle"]

\* C17: every step that changes open_orders, the positions, cash or value
\* is a step of the thread that holds _lock_orders.
C17_WritesUnderLock ==
    [][(open_orders' # open_orders \/ positions' # positions
           \/ cash' # cash \/ value' # value)
          => /\ lock_orders # "free"
             /\ pc'[lock_orders] # pc[lock_orders]]_vars

\* C18: when _submit has ended, returned or raised, the order create_order
\* created in it is a key of open_orders.
C18_CreatedIsRegistered ==
    (pc["caller"] = "exit" /\ call.op = "submit" /\ call.id # 0)
       => call.id \in open_orders

\* C19: a cancel of an order that an earlier cancel removed, with the
\* exchange answering a non-closed fetch and a canceled response again,
\* returns without raising, puts no notification and leaves open_orders
\* unchanged.
C19_CancelRepeatable ==
    (pc["caller"] = "exit" /\ call.op = "cancel"
        /\ call.id \notin pre["caller"].open_orders
        /\ orders[call.id].status = "Canceled"
        /\ call.fetched # "" /\ call.fetched # closed_order
        /\ call.response = canceled_order)
       => /\ outcome["caller"] = "returned"
          /\ eff["caller"].notified = 0
          /\ open_orders = pre["caller"].open_orders

\* C20: for every applied fill, the closed and the opened commission add up
\* to the commission of the report (0 without the key 'n'), and the closed
\* and the opened value add up to price * (closed + opened).
C20_SplitConserves ==
    pc["listener"] \in {"p_trades", "p_balance"}
       => LET r == IF pc["listener"] = "p_trades" THEN fill
                                                  ELSE orders[msg.i].exbit
          IN  /\ r.closedcomm + r.openedcomm = (IF msg.hasn THEN msg.n ELSE 0)
              /\ r.closedvalue + r.openedvalue = msg.L * (r.closed + r.opened)

\* C21: _lock_orders is held by a thread exactly while that thread is
\* inside the with block of _submit, cancel or push_trade_message, so it is
\* free again after every way the block is left; and under fair scheduling
\* every handler a thread has entered, waiting for the lock or holding it,
\* eventually completes.
C21_LockReleasedAndLive ==
    /\ [](\A t \in Threads :
             lock_orders = t <=>
                pc[t] \in {"s_create", "s_fetch", "c_fetch", "c_cancel",
                           "p_check", "p_trades", "p_balance", "exit"})
    /\ \A t \in Threads :
          (pc[t] \notin {"idle", "stopped"}) ~> (pc[t] = "idle")

\* cancel waits for the lock while push_trade_message holds it and is about
\* to leave the with block by an exception
C21_Witness ==
    /\ pc["caller"] = "c_lock"
    /\ lock_orders = "listener"
    /\ pc["listener"] = "exit"
    /\ outcome["listener"] = "raised"

====
